---- MODULE Spec2Model ----
(***************************************************************************)
(* Model of git-local-backup (src/main.go): one invocation of main() is a  *)
(* run; a behaviour is a first run (dry or live) followed by live runs on  *)
(* the same source tree with the same candidate list.                      *)
(*                                                                         *)
(* Paths are sequences of name components relative to the backup root (or  *)
(* to the projects root, which mirrors it).  A tree maps every path of the *)
(* universe to "none", "dir" or the content of a regular file.  File       *)
(* system calls follow the semantics the Go runtime has on Unix: a path    *)
(* that runs through a regular file fails with ENOTDIR, which              *)
(* os.IsNotExist does not match.                                           *)
(***************************************************************************)
EXTENDS Naturals, Sequences, FiniteSets

\* ---------------------------------------------------------------- bounds
MaxReported == 3      \* most paths the two git listings report together
MaxRuns == 2          \* runs in one behaviour

\* ------------------------------------------------------- path universe
Root == <<>>
ProjectName == "p"
\* paths relative to the project directory, in lexical (git output) order
RelOrder == << <<"a">>, <<"a", "b">>, <<"a", "c">> >>
\* paths relative to the backup root, in filepath.WalkDir order
WalkOrder == << <<"p">>, <<"p", "a">>, <<"p", "a", "b">>, <<"p", "a", "c">> >>

Range(s) == {s[k] : k \in 1..Len(s)}
RelPaths == Range(RelOrder)
Nodes == Range(WalkOrder)
Blank == <<>>
Contents == {"x", "y"}
Truncated == ""

Parent(n) == SubSeq(n, 1, Len(n) - 1)
Children(n) == {m \in Nodes : Len(m) = Len(n) + 1 /\ Parent(m) = n}
IsPrefix(a, b) == Len(a) <= Len(b) /\ SubSeq(b, 1, Len(a)) = a
IsFileVal(v) == v \notin {"none", "dir"}
Files(t) == {n \in Nodes : IsFileVal(t[n])}
Dirs(t) == {n \in Nodes : t[n] = "dir"}

ValidTree(t) ==
    \A n \in Nodes : t[n] # "none" /\ Len(n) > 1 => t[Parent(n)] = "dir"

\* a project directory holding regular files; directories exist only as
\* the ancestors of files
SourceTrees ==
    {t \in [Nodes -> {"none", "dir"} \cup Contents] :
        /\ ValidTree(t)
        /\ t[<<ProjectName>>] = "dir"
        /\ \A n \in Nodes : t[n] = "dir" /\ Len(n) > 1 => \E m \in Children(n) : t[m] # "none"}

BackupTrees ==
    {t \in [Nodes -> {"none", "dir"} \cup Contents] : ValidTree(t)}

\* ------------------------------------------------------ file system calls
\* os.Stat: "file", "dir", or the errno of the failure
Stat(t, n) ==
    IF n = Root THEN "dir"
    ELSE LET bad == {k \in 1..(Len(n) - 1) : t[SubSeq(n, 1, k)] # "dir"} IN
         IF bad # {}
         THEN LET k == CHOOSE j \in bad : \A j2 \in bad : j <= j2 IN
              IF t[SubSeq(n, 1, k)] = "none" THEN "ENOENT" ELSE "ENOTDIR"
         ELSE IF t[n] = "none" THEN "ENOENT"
         ELSE IF t[n] = "dir" THEN "dir"
         ELSE "file"

\* os.IsNotExist(err) for the error of a Stat
IsNotExist(st) == st = "ENOENT"

\* os.MkdirAll
MkdirAll(t, d) ==
    IF \E k \in 1..Len(d) : IsFileVal(t[SubSeq(d, 1, k)])
    THEN [bk |-> t, err |-> "ENOTDIR"]
    ELSE [bk |-> [n \in Nodes |-> IF IsPrefix(n, d) THEN "dir" ELSE t[n]],
          err |-> "nil"]

\* os.Remove: unlinks a file or removes an empty directory
Remove(t, n) ==
    LET st == Stat(t, n) IN
    IF st \in {"ENOENT", "ENOTDIR"} THEN [bk |-> t, err |-> st]
    ELSE IF st = "dir" /\ \E m \in Children(n) : t[m] # "none"
    THEN [bk |-> t, err |-> "ENOTEMPTY"]
    ELSE [bk |-> [t EXCEPT ![n] = "none"], err |-> "nil"]

\* copyFile(srcPath, dstPath) for the relative path p
copyFile(t, s, p) ==
    LET dstDir == Parent(p)
        made == IF IsNotExist(Stat(t, dstDir))
                THEN MkdirAll(t, dstDir)
                ELSE [bk |-> t, err |-> "nil"]
        t1 == made.bk
        srcSt == Stat(s, p)
    IN  IF made.err # "nil" THEN made
        ELSE IF srcSt \in {"ENOENT", "ENOTDIR"} THEN [bk |-> t1, err |-> srcSt]
        ELSE IF Stat(t1, dstDir) # "dir"
        THEN [bk |-> t1,
              err |-> IF Stat(t1, dstDir) = "ENOENT" THEN "ENOENT" ELSE "ENOTDIR"]
        ELSE IF t1[p] = "dir" THEN [bk |-> t1, err |-> "EISDIR"]
        ELSE IF srcSt = "dir"
        THEN [bk |-> [t1 EXCEPT ![p] = Truncated], err |-> "EISDIR"]
        ELSE [bk |-> [t1 EXCEPT ![p] = s[p]], err |-> "nil"]

\* git diff --no-index --name-only <source p> <backup p>: TRUE when stdout
\* is not empty.  A source path that cannot be accessed prints only to
\* stderr; for a source directory git compares <p>/<last name of p>, a
\* path no tree of this universe holds, and again prints only to stderr.
DiffReportsChange(s, t, p) ==
    /\ Stat(s, p) = "file"
    /\ Stat(t, p) = "file"
    /\ s[p] # t[p]

\* ------------------------------------------------------------------ state
VARIABLES
    src,                    \* the projects root
    bk,                     \* the backup root
    dryRun,                 \* --dry-run
    forceIncludedRelPaths,  \* --force-include values
    pc,                     \* position in main()
    run,                    \* number of the current run
    backedUpDirRelPaths,    \* snapshot: directories, root first
    backedUpFileRelPaths,   \* snapshot: files, minus the claimed ones
    branchName,
    unpushedErr,            \* outcome of the last unpushed-files query
    includedFiles,          \* per-project list being built
    projectFiles,           \* the candidate list
    idx,                    \* loop index of the copy and prune passes
    snapFiles,              \* the file set as the snapshot took it
    bk0,                    \* the backup root when the run started
    copyLog,                \* candidates sent to the copy branch, in order
    deleteLog,              \* files sent to the delete branch
    pruneLog,               \* directories the prune pass attempted, in order
    failures,               \* every failed call of the mutation phase
    diag,                   \* the failures that were printed
    prev,                   \* what the previous run did
    denied,                 \* backup entries the process may not remove
    indexStale,             \* the project's .git/index has out-of-date stat data
    decisions               \* what the copy loop did with each candidate so far

vars == <<src, bk, dryRun, forceIncludedRelPaths, pc, run, backedUpDirRelPaths,
          backedUpFileRelPaths, branchName, unpushedErr, includedFiles,
          projectFiles, idx, snapFiles, bk0, copyLog, deleteLog,
          pruneLog, failures, diag, prev, denied, indexStale, decisions>>

flagVars == <<forceIncludedRelPaths, denied>>
envVars == <<src, flagVars, indexStale>>
logVars == <<copyLog, deleteLog, pruneLog, failures, diag, decisions>>
snapVars == <<backedUpDirRelPaths, backedUpFileRelPaths, snapFiles>>
listVars == <<branchName, unpushedErr, includedFiles, projectFiles>>

NoRun == [ran |-> FALSE, dry |-> FALSE, copyLog |-> <<>>, deleteLog |-> {},
          claimed |-> {}, replay |-> FALSE, bk |-> <<>>, decisions |-> {}]

\* os.Remove on a tree of the machine: an entry the process may not remove
\* fails with EACCES
osRemove(t, n) ==
    IF n \in denied /\ Stat(t, n) \in {"file", "dir"}
    THEN [bk |-> t, err |-> "EACCES"]
    ELSE Remove(t, n)

\* the two roots of the command line, and the tree under each
ProjectsPath == "projectsPath"
BackupPath == "backupPath"
TreeAt(root) == IF root = BackupPath THEN bk ELSE src
WriteTree(root, t) ==
    IF root = BackupPath
    THEN bk' = t /\ src' = src
    ELSE src' = t /\ bk' = bk

InitWith(deniedSets) ==
    /\ denied \in deniedSets
    /\ indexStale \in BOOLEAN
    /\ decisions = <<>>
    /\ src \in SourceTrees
    /\ bk \in BackupTrees
    /\ dryRun \in BOOLEAN
    /\ forceIncludedRelPaths \in {<<>>, << <<"a">> >>}
    /\ pc = "lookPath"
    /\ run = 1
    /\ backedUpDirRelPaths = <<>>
    /\ backedUpFileRelPaths = {}
    /\ branchName = ""
    /\ unpushedErr = "nil"
    /\ includedFiles = <<>>
    /\ projectFiles = <<>>
    /\ idx = 0
    /\ snapFiles = {}
    /\ bk0 = bk
    /\ copyLog = <<>>
    /\ deleteLog = {}
    /\ pruneLog = <<>>
    /\ failures = {}
    /\ diag = {}
    /\ prev = NoRun

\* every removal the tool asks for is permitted
Init == InitWith({{}})

\* one entry of the backup tree cannot be removed (os.Remove fails with
\* EACCES)
InitIO == InitWith({{n} : n \in Nodes})

\* ---------------------------------------------------------- discovery
SelSeq(order, S) == SelectSeq(order, LAMBDA n : n \in S)
Join(a, b) == a \o b
SourceFilesRel == {r \in RelPaths : Stat(src, Join(<<ProjectName>>, r)) = "file"}
NonBlank(s) == SelectSeq(s, LAMBDA e : e # Blank)
Abort == pc' = "aborted"

\* exec.LookPath("git"); panicIf(err)
LookPath ==
    /\ pc = "lookPath"
    /\ \E found \in BOOLEAN : IF found THEN pc' = "walkBackup" ELSE Abort
    /\ UNCHANGED <<envVars, bk, dryRun, run, snapVars, listVars, idx, bk0, logVars, prev>>

\* filepath.WalkDir(*backupPath, ...); panicIf(err).  A later run of the
\* same behaviour keeps the candidate list of the first one (same sources,
\* same version-control state) and goes on to the copy pass.
WalkBackup ==
    /\ pc = "walkBackup"
    /\ \E ok \in BOOLEAN :
        IF ok
        THEN /\ backedUpDirRelPaths' = <<Root>> \o SelSeq(WalkOrder, Dirs(bk))
             /\ backedUpFileRelPaths' = Files(bk)
             /\ snapFiles' = Files(bk)
             /\ pc' = IF run = 1 THEN "readDir" ELSE "copy"
             /\ idx' = 1
        ELSE /\ Abort
             /\ UNCHANGED <<snapVars, idx>>
    /\ UNCHANGED <<envVars, bk, dryRun, run, listVars, bk0, logVars, prev>>

\* os.ReadDir(*projectsPath); panicIf(err); directories without .git are
\* skipped
ReadProjects ==
    /\ pc = "readDir"
    /\ \E r \in {"err", "git", "notgit"} :
        CASE r = "err" -> Abort
          [] r = "git" -> pc' = "lsFiles"
          [] r = "notgit" -> pc' = "copy"
    /\ UNCHANGED <<envVars, bk, dryRun, run, snapVars, listVars, idx, bk0, logVars, prev>>

\* os.Chdir; git ls-files --exclude-standard --others --full-name
ListUntracked ==
    /\ pc = "lsFiles"
    /\ \E ok \in BOOLEAN :
        IF ok
        THEN \E U \in SUBSET SourceFilesRel :
                /\ Cardinality(U) <= MaxReported
                /\ includedFiles' = SelSeq(RelOrder, U) \o <<Blank>>
                /\ pc' = "branch"
        ELSE Abort /\ UNCHANGED includedFiles
    /\ UNCHANGED <<envVars, bk, dryRun, run, snapVars, branchName, unpushedErr,
                   projectFiles, idx, bk0, logVars, prev>>

\* git branch --show-current; panicIf(err)
CurrentBranch ==
    /\ pc = "branch"
    /\ \E b \in {"err", "", "main"} :
        IF b = "err" THEN Abort /\ UNCHANGED branchName
        ELSE branchName' = b /\ pc' = "unpushed"
    /\ UNCHANGED <<envVars, bk, dryRun, run, snapVars, unpushedErr, includedFiles,
                   projectFiles, idx, bk0, logVars, prev>>

\* git diff --name-only <remote>/<branch>: the error is discarded and
\* whatever stdout holds is split into lines.  A git diff against a commit
\* that finds out-of-date stat data in the index rewrites .git/index of the
\* project (diff.autoRefreshIndex); it does not when the remote branch
\* cannot be resolved, and may or may not have when it fails otherwise.
UnpushedFiles ==
    /\ pc = "unpushed"
    /\ IF branchName = ""
       THEN UNCHANGED <<includedFiles, unpushedErr, indexStale>>
       ELSE \E e \in {"nil", "noUpstream", "other"}, D \in SUBSET RelPaths,
               refreshed \in BOOLEAN :
                /\ e # "nil" => D = {}
                /\ e = "nil" => refreshed
                /\ e = "noUpstream" => ~refreshed
                /\ Len(NonBlank(includedFiles)) + Cardinality(D) <= MaxReported
                /\ unpushedErr' = e
                /\ includedFiles' = includedFiles \o SelSeq(RelOrder, D) \o <<Blank>>
                /\ indexStale' = (indexStale /\ ~refreshed)
    /\ pc' = "force"
    /\ UNCHANGED <<src, flagVars, bk, dryRun, run, snapVars, branchName, projectFiles,
                   idx, bk0, logVars, prev>>

\* the entries one --force-include value adds: nothing when it does not
\* exist, every file below a directory, the value itself for a file
ForceEntries(f) ==
    LET st == Stat(src, Join(<<ProjectName>>, f)) IN
    CASE IsNotExist(st) -> <<>>
      [] st = "dir" -> SelSeq(RelOrder, {r \in SourceFilesRel : IsPrefix(f, r)})
      [] OTHER -> <<f>>

RECURSIVE ForceExpand(_)
ForceExpand(fs) ==
    IF fs = <<>> THEN <<>> ELSE ForceEntries(Head(fs)) \o ForceExpand(Tail(fs))

\* the loop over forceIncludedRelPaths; a Stat error other than
\* "not exist" panics
ForceInclude ==
    /\ pc = "force"
    /\ IF \E k \in 1..Len(forceIncludedRelPaths) :
            Stat(src, Join(<<ProjectName>>, forceIncludedRelPaths[k])) = "ENOTDIR"
       THEN Abort /\ UNCHANGED includedFiles
       ELSE /\ includedFiles' = includedFiles \o ForceExpand(forceIncludedRelPaths)
            /\ pc' = "prefix"
    /\ UNCHANGED <<envVars, bk, dryRun, run, snapVars, branchName, unpushedErr,
                   projectFiles, idx, bk0, logVars, prev>>

\* blank entries are dropped, the others get the project name in front
PrefixProject ==
    /\ pc = "prefix"
    /\ projectFiles' = projectFiles \o
            [k \in 1..Len(NonBlank(includedFiles)) |->
                Join(<<ProjectName>>, NonBlank(includedFiles)[k])]
    /\ includedFiles' = <<>>
    /\ branchName' = ""
    /\ unpushedErr' = "nil"
    /\ pc' = "copy"
    /\ UNCHANGED <<envVars, bk, dryRun, run, snapVars, idx, bk0, logVars, prev>>

\* -------------------------------------------------------- reconciliation
Failure(op, p, e) == [op |-> op, path |-> p, err |-> e]

\* the three tests of the copy loop body: the source is gone (continue),
\* the path is in the snapshot's file set (it is taken out of it), the
\* comparison printed nothing (continue)
SourceGone(p) == IsNotExist(Stat(src, p))
ClaimsWhenLive(p) == ~dryRun /\ ~SourceGone(p) /\ p \in backedUpFileRelPaths
Claims(p) == ~SourceGone(p) /\ p \in backedUpFileRelPaths
Unchanged(p) == Claims(p) /\ ~DiffReportsChange(src, bk, p)
WantsCopy(p) == ~SourceGone(p) /\ ~Unchanged(p)

\* what the loop did with the candidate p
Decision(p) ==
    IF SourceGone(p) THEN "gone" ELSE IF Unchanged(p) THEN "skip" ELSE "copy"

\* the root each destructive call is joined to
CopyRoot == BackupPath
DeleteRoot == BackupPath
PruneRoot == BackupPath

\* where main() goes after a failed copy, a failed deletion and a reported
\* directory removal: the error is printed and the loop goes on
CopyErrorPanics == "aborted"
AfterCopyError == pc
DeleteErrorPanics == "aborted"
AfterDeleteError == pc
AfterPruneError == pc

\* the loop conditions of the copy pass and of the prune pass (idx is
\* one-based, element 1 is the backup root)
CopyLoopLeavesEarly == idx >= Len(projectFiles)
CopyLoopDone == idx > Len(projectFiles)
PruneIncludesRoot(i) == i > 0
PruneContinues(i) == i > 1

\* the if *dryRun tests of the copy branch, the delete loop and the prune pass
CopyReportsOnly == dryRun
DeleteIgnoresDryRun == FALSE
DeleteReportsOnly == dryRun
PruneSkipped == dryRun

\* one iteration of the loop over projectFiles
CopyStep ==
    /\ pc = "copy"
    /\ ~CopyLoopDone
    /\ LET p == projectFiles[idx]
           r == copyFile(TreeAt(CopyRoot), src, p)
       IN /\ backedUpFileRelPaths' =
                IF Claims(p) THEN backedUpFileRelPaths \ {p} ELSE backedUpFileRelPaths
          /\ decisions' = Append(decisions, Decision(p))
          /\ IF WantsCopy(p)
             THEN /\ copyLog' = Append(copyLog, p)
                  /\ IF CopyReportsOnly
                     THEN UNCHANGED <<src, bk, failures, diag, pc>>
                     ELSE /\ WriteTree(CopyRoot, r.bk)
                          /\ IF r.err # "nil"
                             THEN /\ failures' = failures \cup {Failure("copy", p, r.err)}
                                  /\ diag' = diag \cup {Failure("copy", p, r.err)}
                                  /\ pc' = AfterCopyError
                             ELSE UNCHANGED <<failures, diag, pc>>
             ELSE UNCHANGED <<src, bk, copyLog, failures, diag, pc>>
    /\ idx' = idx + 1
    /\ UNCHANGED <<flagVars, indexStale, dryRun, run, backedUpDirRelPaths, snapFiles, listVars,
                   bk0, deleteLog, pruneLog, prev>>

CopyPassEnd ==
    /\ pc = "copy"
    /\ CopyLoopDone
    /\ pc' = "delete"
    /\ UNCHANGED <<envVars, bk, dryRun, run, snapVars, listVars, idx, bk0, logVars, prev>>

\* one iteration of the loop over backedUpFileRelPaths (map order)
DeleteStep ==
    /\ pc = "delete"
    /\ \E f \in backedUpFileRelPaths \ deleteLog :
        LET r == osRemove(TreeAt(DeleteRoot), f) IN
        /\ deleteLog' = deleteLog \cup {f}
        /\ IF DeleteReportsOnly
           THEN UNCHANGED <<src, bk, failures, diag, pc>>
           ELSE /\ WriteTree(DeleteRoot, r.bk)
                /\ IF r.err # "nil"
                   THEN /\ failures' = failures \cup {Failure("delete", f, r.err)}
                        /\ diag' = diag \cup {Failure("delete", f, r.err)}
                        /\ pc' = AfterDeleteError
                   ELSE UNCHANGED <<failures, diag, pc>>
    /\ UNCHANGED <<flagVars, indexStale, dryRun, run, snapVars, listVars, idx, bk0, copyLog,
                   pruneLog, decisions, prev>>

DeletePassEnd ==
    /\ pc = "delete"
    /\ backedUpFileRelPaths \subseteq deleteLog
    /\ pc' = "prune"
    /\ idx' = Len(backedUpDirRelPaths)
    /\ UNCHANGED <<envVars, bk, dryRun, run, snapVars, listVars, bk0, logVars, prev>>

\* is the error of a failed directory removal printed
PruneReports(e) == e # "nil" /\ ~IsNotExist(e)

\* one iteration of the prune loop; element 1 is the backup root
PruneStep ==
    /\ pc = "prune"
    /\ ~PruneSkipped
    /\ PruneContinues(idx)
    /\ LET d == backedUpDirRelPaths[idx]
           r == osRemove(TreeAt(PruneRoot), d)
       IN /\ WriteTree(PruneRoot, r.bk)
          /\ pruneLog' = Append(pruneLog, d)
          /\ pc' = IF PruneReports(r.err) THEN AfterPruneError ELSE pc
          /\ failures' = IF r.err # "nil"
                         THEN failures \cup {Failure("prune", d, r.err)}
                         ELSE failures
          /\ diag' = IF PruneReports(r.err)
                     THEN diag \cup {Failure("prune", d, r.err)}
                     ELSE diag
    /\ idx' = idx - 1
    /\ UNCHANGED <<flagVars, indexStale, dryRun, run, snapVars, listVars, bk0, copyLog,
                   deleteLog, decisions, prev>>

PruneEnd ==
    /\ pc = "prune"
    /\ PruneSkipped \/ ~PruneContinues(idx)
    /\ pc' = "done"
    /\ UNCHANGED <<envVars, bk, dryRun, run, snapVars, listVars, idx, bk0, logVars, prev>>

\* the tool is started again, live, with nothing changed in between
NextRun ==
    /\ pc = "done"
    /\ run < MaxRuns
    /\ prev' = [ran |-> TRUE, dry |-> dryRun, copyLog |-> copyLog,
                deleteLog |-> deleteLog,
                claimed |-> snapFiles \ backedUpFileRelPaths,
                replay |-> FALSE, bk |-> <<>>, decisions |-> {}]
    /\ run' = run + 1
    /\ dryRun' = FALSE
    /\ pc' = "lookPath"
    /\ backedUpDirRelPaths' = <<>>
    /\ backedUpFileRelPaths' = {}
    /\ snapFiles' = {}
    /\ idx' = 0
    /\ bk0' = bk
    /\ copyLog' = <<>>
    /\ deleteLog' = {}
    /\ pruneLog' = <<>>
    /\ failures' = {}
    /\ diag' = {}
    /\ decisions' = <<>>
    /\ UNCHANGED <<envVars, bk, listVars>>

\* the candidate list with every repeated occurrence of a path removed
RECURSIVE Dedup(_)
Dedup(s) ==
    IF s = <<>> THEN <<>>
    ELSE LET front == Dedup(SubSeq(s, 1, Len(s) - 1))
             last == s[Len(s)]
         IN IF last \in Range(front) THEN front ELSE Append(front, last)

\* the copies and the skips of the run so far, each with its path
DecisionSet ==
    {<<projectFiles[k], decisions[k]>> :
        k \in {j \in 1..Len(decisions) : decisions[j] # "gone"}}

\* the reconciler is run once more from the same backup tree, with the
\* same flags, on the list without its repeated occurrences
Replay ==
    /\ pc = "done"
    /\ run = 1
    /\ Dedup(projectFiles) # projectFiles
    /\ prev' = [ran |-> TRUE, dry |-> dryRun, copyLog |-> copyLog,
                deleteLog |-> deleteLog,
                claimed |-> snapFiles \ backedUpFileRelPaths,
                replay |-> TRUE, bk |-> bk, decisions |-> DecisionSet]
    /\ projectFiles' = Dedup(projectFiles)
    /\ bk' = bk0
    /\ run' = run + 1
    /\ pc' = "lookPath"
    /\ backedUpDirRelPaths' = <<>>
    /\ backedUpFileRelPaths' = {}
    /\ snapFiles' = {}
    /\ idx' = 0
    /\ copyLog' = <<>>
    /\ deleteLog' = {}
    /\ pruneLog' = <<>>
    /\ failures' = {}
    /\ diag' = {}
    /\ decisions' = <<>>
    /\ UNCHANGED <<envVars, dryRun, bk0, branchName, unpushedErr, includedFiles>>

\* ------------------------------------------------------------ properties
Finished == pc = "done"
LiveFinished == Finished /\ ~dryRun
CopyPassOver == pc \in {"delete", "prune", "done"}
Candidates == Range(projectFiles)
SourceFileExists(p) == Stat(src, p) = "file"
SourceMissing(p) == Stat(src, p) \in {"ENOENT", "ENOTDIR"}
AfterLiveRun == run > 1 /\ prev.ran /\ ~prev.dry
AfterDryRun == run > 1 /\ prev.ran /\ prev.dry

\* C1: a live run that follows a completed live run, with the same source
\* files and the same candidate list, sends no candidate to the copy branch
\* and no backup file to the delete branch.
C1_Idempotence ==
    (AfterLiveRun /\ Finished) => (copyLog = <<>> /\ deleteLog = {})

\* C2: whenever a live run copies a candidate, the backup tree at that
\* moment has no file at the candidate's path or a file whose content
\* differs from the source.
C2_CopyOnlyWhenNeeded ==
    [][(~dryRun /\ Len(copyLog') = Len(copyLog) + 1)
        => LET p == copyLog'[Len(copyLog')] IN
           Stat(bk, p) # "file" \/ bk[p] # src[p]]_vars

\* C3: when a live run has finished, every candidate whose source file
\* exists has a backup file with the content of the source.
C3_Convergence ==
    LiveFinished =>
        \A p \in Candidates : SourceFileExists(p) => bk[p] = src[p]

\* C4: when a live run has finished, every file of the snapshot that is not
\* a candidate with an existing source file has been deleted.
C4_StaleFilesDeleted ==
    LiveFinished =>
        \A f \in snapFiles :
            ~(f \in Candidates /\ SourceFileExists(f))
                => (f \in deleteLog /\ bk[f] = "none")

\* C5: when a live run has finished, every directory of the backup tree
\* other than the root holds a file or a subdirectory.
C5_NoEmptyDirectory ==
    LiveFinished =>
        \A n \in Nodes : bk[n] = "dir" => \E m \in Children(n) : bk[m] # "none"

\* C6: in dry-run mode the backup tree stays what it was when the run
\* started, at every step of the run.
C6_DryRunNoMutation == dryRun => bk = bk0

C6_Witness ==
    /\ dryRun
    /\ Finished
    /\ copyLog # <<>>
    /\ deleteLog # {}
    /\ \E n \in Nodes : bk[n] = "dir" /\ Children(n) # {}
                        /\ \A m \in Children(n) : bk[m] = "none" \/ m \in deleteLog

\* C7: a live run started from the state a dry-run left sends to the copy
\* branch (calls copyFile for) exactly the paths the dry-run printed with +,
\* sends to the delete branch exactly the paths it printed with -, and
\* claims the same snapshot files.
C7_DryRunFidelity ==
    (AfterDryRun /\ Finished) =>
        /\ copyLog = prev.copyLog
        /\ deleteLog = prev.deleteLog
        /\ snapFiles \ backedUpFileRelPaths = prev.claimed

C7_Witness ==
    /\ AfterDryRun
    /\ Finished
    /\ copyLog # <<>>
    /\ deleteLog # {}
    /\ snapFiles \ backedUpFileRelPaths # {}

\* C8: a directory removal of the prune pass that fails with "not empty"
\* prints nothing, and one that fails with anything else prints a
\* diagnostic.
C8_PruneDiagnostics ==
    \A f \in failures :
        f.op = "prune" => (f \in diag <=> f.err # "ENOTEMPTY")

\* C9: a failure of the unpushed-files query other than the missing remote
\* branch aborts the run.
C9_QueryFailureAborts == unpushedErr = "other" => pc = "aborted"

\* C10: a candidate whose source does not exist when the copy pass reaches
\* it is not sent to the copy branch and not claimed, and when it is in the
\* snapshot the delete pass of the same run takes it.
C10_RaceTolerance ==
    \A p \in Candidates :
        SourceMissing(p) =>
            /\ CopyPassOver =>
                /\ p \notin Range(copyLog)
                /\ p \in snapFiles => p \in backedUpFileRelPaths
            /\ Finished /\ p \in snapFiles =>
                /\ p \in deleteLog
                /\ ~dryRun => bk[p] = "none"

\* C11 (per-file isolation): a failed copy or a failed deletion never
\* aborts the run: a run is aborted only before the copy loop took its
\* first decision; once the copy pass is over every candidate has had its
\* decision, once the delete pass is over every file left in the snapshot
\* set has been sent to the delete branch, and a finished live run has
\* attempted every snapshot directory but the root.
CopyFailures == {x \in failures : x.op = "copy"}
DeleteFailures == {x \in failures : x.op = "delete"}
C11_PerFileIsolation ==
    /\ pc = "aborted" =>
            decisions = <<>> /\ deleteLog = {} /\ pruneLog = <<>> /\ failures = {}
    /\ CopyPassOver => Len(decisions) = Len(projectFiles)
    /\ pc \in {"prune", "done"} => deleteLog = backedUpFileRelPaths
    /\ LiveFinished =>
            pruneLog = [k \in 1..(Len(backedUpDirRelPaths) - 1) |->
                            backedUpDirRelPaths[Len(backedUpDirRelPaths) + 1 - k]]

\* a finished live run in which a copy failed before the last candidate,
\* a deletion failed, another stale file was deleted and directories were
\* attempted
C11_Witness ==
    /\ LiveFinished
    /\ \E x \in CopyFailures :
            \E k \in 1..(Len(projectFiles) - 1) : projectFiles[k] = x.path
    /\ \E x \in DeleteFailures :
            \E f \in deleteLog : f # x.path /\ ~IsFileVal(bk[f])
    /\ pruneLog # <<>>

\* C12 (backup root preserved): no removal is ever issued for the backup
\* root: it is not among the directories the prune pass attempted and not
\* among the files sent to the delete branch, so the root stays in place.
C12_BackupRootPreserved ==
    /\ \A k \in 1..Len(pruneLog) : pruneLog[k] # Root
    /\ Root \notin deleteLog

\* a finished live run that removed every file and every directory below
\* the backup root
C12_Witness ==
    /\ LiveFinished
    /\ \E n \in Nodes : IsFileVal(bk0[n])
    /\ \E n \in Nodes : Len(n) > 1 /\ bk0[n] = "dir"
    /\ \A n \in Nodes : bk[n] = "none"
    /\ Len(pruneLog) = Len(backedUpDirRelPaths) - 1

\* C13 (duplicate tolerance): when the run on a list with repeated paths
\* and the run on the same list without the repetitions have both finished,
\* from the same backup tree, the two backup trees are equal and the two
\* runs took the same copy and skip decisions.
C13_DuplicateTolerance ==
    (Finished /\ prev.replay) =>
        /\ bk = prev.bk
        /\ DecisionSet = prev.decisions

\* C14 (pass ordering): a file is sent to the delete branch only when the
\* copy loop has taken its decision for the last candidate, and until then
\* every file of the snapshot is still a file of the backup tree; a
\* directory removal is attempted only when every file left in the
\* snapshot set has been sent to the delete branch, and until then every
\* directory of the snapshot is still in place.
C14_PassOrdering ==
    /\ deleteLog # {} => Len(decisions) = Len(projectFiles)
    /\ pc = "copy" => \A f \in snapFiles : IsFileVal(bk[f])
    /\ pruneLog # <<>> => backedUpFileRelPaths \subseteq deleteLog
    /\ pc \in {"copy", "delete"} =>
            \A k \in 2..Len(backedUpDirRelPaths) : bk[backedUpDirRelPaths[k]] = "dir"

\* a finished live run that decided on two candidates, copied, deleted
\* two stale files and then removed a directory
C14_Witness ==
    /\ LiveFinished
    /\ Len(decisions) >= 2
    /\ copyLog # <<>>
    /\ Cardinality(deleteLog) >= 2
    /\ \E k \in 1..Len(pruneLog) : bk[pruneLog[k]] = "none"

\* C15 (prune order): the snapshot's directory sequence starts with the
\* backup root and lists every other directory after its parent; the prune
\* pass attempts a directory only after every snapshot directory below it;
\* and when a live run has finished, every snapshot directory other than
\* the root whose subtree holds no file has been removed.
SnapshotDirs == Range(backedUpDirRelPaths)
Below(d) == {n \in Nodes : IsPrefix(d, n) /\ n # d}
HoldsNoFile(d) == \A n \in Below(d) : ~IsFileVal(bk[n])
ParentsFirst ==
    backedUpDirRelPaths # <<>> =>
        /\ backedUpDirRelPaths[1] = Root
        /\ \A k \in 2..Len(backedUpDirRelPaths) :
                \E j \in 1..(k - 1) :
                    backedUpDirRelPaths[j] = Parent(backedUpDirRelPaths[k])
DescendantsFirst ==
    \A k \in 1..Len(pruneLog) :
        \A d \in SnapshotDirs \cap Below(pruneLog[k]) :
            \E j \in 1..(k - 1) : pruneLog[j] = d
EmptySubtreesRemoved ==
    LiveFinished =>
        \A d \in SnapshotDirs \ {Root} : HoldsNoFile(d) => bk[d] = "none"
C15_PruneOrder == ParentsFirst /\ DescendantsFirst /\ EmptySubtreesRemoved

\* C16 (no claimed file is deleted): no step sends to the delete branch a
\* file whose path is a candidate with an existing source file; when the
\* delete pass ends, the paths it took are exactly the files of the
\* snapshot minus the candidates whose source exists; and no step of the
\* copy pass adds a path to the pending-deletion set.
SourceExists(p) == ~SourceMissing(p)
ClaimedNotDeleted ==
    \A f \in deleteLog' \ deleteLog : ~(f \in Candidates /\ SourceFileExists(f))
DeletedExactly ==
    (pc = "delete" /\ pc' = "prune") =>
        deleteLog = snapFiles \ {p \in Candidates : SourceExists(p)}
PendingOnlyShrinks ==
    pc = "copy" => backedUpFileRelPaths' \subseteq backedUpFileRelPaths
C16_NoClaimedFileDeleted ==
    [][ClaimedNotDeleted /\ DeletedExactly /\ PendingOnlyShrinks]_vars

\* C17 (abort before mutation): a run that has aborted took no copy
\* decision, sent no file to the delete branch, attempted no directory, and
\* its backup tree is the tree the run started with.
C17_AbortBeforeMutation ==
    pc = "aborted" =>
        /\ bk = bk0
        /\ decisions = <<>>
        /\ deleteLog = {}
        /\ pruneLog = <<>>

\* a run started with --force-include and aborted during discovery, after
\* the snapshot found files in the backup tree and the listing named files
\* to back up
C17_Witness ==
    /\ pc = "aborted"
    /\ snapFiles # {}
    /\ NonBlank(includedFiles) # <<>>
    /\ forceIncludedRelPaths # <<>>

\* C18 (source tree unchanged): no step changes the tree under the
\* projects root, the index file of the project included.
C18_SourceTreeUnchanged == [][src' = src /\ indexStale' = indexStale]_vars

\* the steps of one run of main()
Steps ==
    \/ LookPath
    \/ WalkBackup
    \/ ReadProjects
    \/ ListUntracked
    \/ CurrentBranch
    \/ UnpushedFiles
    \/ ForceInclude
    \/ PrefixProject
    \/ CopyStep
    \/ CopyPassEnd
    \/ DeleteStep
    \/ DeletePassEnd
    \/ PruneStep
    \/ PruneEnd

Next ==
    \/ Steps
    \/ NextRun

Spec == Init /\ [][Next]_vars

\* one run on a list with repeated paths, then one on the list without them
NextDup ==
    \/ Steps
    \/ Replay

SpecDup == Init /\ [][NextDup]_vars

\* one run on a machine where one backup entry cannot be removed
NextIO == Steps

SpecIO == InitIO /\ [][NextIO]_vars
====
